---- MODULE Spec2Model ----
(***************************************************************************)
(* A model of the task collection engine of todo-tui (src/src/app.rs,      *)
(* src/src/task.rs): the TodoApp store, its status state machines, the     *)
(* stable re-sort by status and the compound-description parsing done by   *)
(* add_task.                                                               *)
(*                                                                         *)
(* A description (a Rust String) is a sequence of one-character strings.   *)
(* An Option<T> is a sequence of length 0 (None) or 1 (Some(v)).           *)
(***************************************************************************)
EXTENDS Integers, Sequences, FiniteSets, Bags, TLC

VARIABLES
  tasks,          \* TodoApp.tasks
  now,            \* the reading of the wall clock, Local::now()
  panicked,       \* TRUE once an operation has panicked: the process is gone
  last,           \* the latest call on the store and its arguments
  ret,            \* the value returned by the latest query, as an Option
  tracked,        \* the task a scenario follows, as an Option: its description,
                  \* the index of its first toggle and the number of its toggles
  before,         \* the tasks as the latest operation of a scenario found them
  more_done,      \* the number of further Done tasks of a store too long to write
                  \* out: the store is tasks followed by more_done Done tasks
  main_current_index,  \* main: current_index, the selected row of the filtered list
  filter,         \* main: the filter in force
  input,          \* main: the input line
  input_mode,     \* main: the InputMode
  file            \* the content of the todo file

\* the state of the store and of the calls on it
store == <<tasks, now, panicked, last>>

\* the state of the driver of main.rs
driver == <<main_current_index, filter, input, input_mode, file>>

\* what the operations of the store leave alone
\* what the scenarios of single specifications record
scenario == <<tracked, before, more_done>>

aux == <<ret, scenario, driver>>

vars == <<store, aux>>

(***************************************************************************)
(* Bounds of the model.                                                    *)
(***************************************************************************)
\* the largest number of tasks the store holds in the model
MaxTasks == 3
\* the longest description that SpecCreate enumerates exhaustively
MaxDescLen == 5

(***************************************************************************)
(* task.rs                                                                 *)
(***************************************************************************)
TaskStatus == {"Undone", "Pending", "Done"}

None == <<>>

Some(v) == <<v>>

(***************************************************************************)
(* The string operations of the Rust standard library that add_task uses.  *)
(***************************************************************************)
\* char::is_whitespace, restricted to the characters of the model
White_Space == {" "}

\* the patterns of add_task
ColonSpace == <<":", " ">>

SemiSpace == <<";", " ">>

Semi == <<";">>

\* s[i..].starts_with(p), i counted from 1
MatchAt(s, p, i) ==
  /\ i + Len(p) - 1 <= Len(s)
  /\ SubSeq(s, i, i + Len(p) - 1) = p

\* str::contains(p)
Contains(s, p) == \E i \in 1..(Len(s) + 1) : MatchAt(s, p, i)

\* str::find(p): the position of the first match, 0 when there is none
Find(s, p) ==
  IF Contains(s, p)
    THEN CHOOSE i \in 1..(Len(s) + 1) :
           /\ MatchAt(s, p, i)
           /\ \A j \in 1..(i - 1) : ~MatchAt(s, p, j)
    ELSE 0

\* str::splitn(2, p).collect()
SplitN2(s, p) ==
  IF Contains(s, p)
    THEN <<SubSeq(s, 1, Find(s, p) - 1), SubSeq(s, Find(s, p) + Len(p), Len(s))>>
    ELSE <<s>>

RECURSIVE Split(_, _)
\* str::split(p).collect(), p non-empty
Split(s, p) ==
  IF Contains(s, p)
    THEN <<SubSeq(s, 1, Find(s, p) - 1)>>
           \o Split(SubSeq(s, Find(s, p) + Len(p), Len(s)), p)
    ELSE <<s>>

RECURSIVE TrimStart(_)
TrimStart(s) ==
  IF s # <<>> /\ Head(s) \in White_Space THEN TrimStart(Tail(s)) ELSE s

RECURSIVE TrimEnd(_)
TrimEnd(s) ==
  IF s # <<>> /\ s[Len(s)] \in White_Space
    THEN TrimEnd(SubSeq(s, 1, Len(s) - 1))
    ELSE s

\* str::trim()
Trim(s) == TrimEnd(TrimStart(s))

\* format!("{}: {}", name, seg)
Format(name, seg) == name \o <<":", " ">> \o seg

(***************************************************************************)
(* Vec operations.                                                         *)
(***************************************************************************)
\* Vec::insert(index, x) with a 0-based index <= len
VecInsert(v, index, x) ==
  SubSeq(v, 1, index) \o <<x>> \o SubSeq(v, index + 1, Len(v))

VecRemoveLast(v, index) == SubSeq(v, 1, Len(v) - 1)

\* Vec::remove(index) with a 0-based index < len
VecRemove(v, index) ==
  SubSeq(v, 1, index) \o SubSeq(v, index + 2, Len(v))

(***************************************************************************)
(* reorder_tasks: sort_by_key is a stable sort; on the short vectors of    *)
(* the model it is the insertion sort that puts each element behind every  *)
(* element already placed whose key is not greater.                        *)
(***************************************************************************)
StatusKeySwapped(status) ==
  CASE status = "Undone" -> 0
    [] status = "Pending" -> 2
    [] status = "Done" -> 1

\* the key closure of reorder_tasks
StatusKey(status) ==
  CASE status = "Undone" -> 0
    [] status = "Pending" -> 1
    [] status = "Done" -> 2

InsertSortedUnstable(sorted, x) ==
  VecInsert(sorted,
            Cardinality({j \in 1..Len(sorted) :
                           StatusKey(sorted[j].status) < StatusKey(x.status)}),
            x)

InsertSortedByTime(sorted, x) ==
  VecInsert(sorted,
            Cardinality({j \in 1..Len(sorted) :
                           \/ StatusKey(sorted[j].status) < StatusKey(x.status)
                           \/ /\ StatusKey(sorted[j].status) = StatusKey(x.status)
                              /\ sorted[j].created_at[1] <= x.created_at[1]}),
            x)

\* one step of the insertion sort: x goes behind the elements with key <= key(x)
InsertSorted(sorted, x) ==
  VecInsert(sorted,
            Cardinality({j \in 1..Len(sorted) :
                           StatusKey(sorted[j].status) <= StatusKey(x.status)}),
            x)

RECURSIVE SortByKey(_)
SortByKey(v) ==
  IF v = <<>> THEN <<>>
  ELSE InsertSorted(SortByKey(SubSeq(v, 1, Len(v) - 1)), v[Len(v)])

(***************************************************************************)
(* add_task                                                                *)
(***************************************************************************)
NewDescriptionsUntrimmedName(description) ==
  IF Contains(description, ColonSpace) /\ Contains(description, SemiSpace)
    THEN LET parts == SplitN2(description, ColonSpace)
             segs == Split(parts[2], Semi)
         IN  [k \in 1..Len(segs) |-> Format(parts[1], Trim(segs[k]))]
    ELSE <<description>>

NewDescriptionsEitherDelimiter(description) ==
  IF Contains(description, ColonSpace) \/ Contains(description, SemiSpace)
    THEN LET parts == SplitN2(description, ColonSpace)
         IN  IF Len(parts) = 2
               THEN LET name == Trim(parts[1])
                        segs == Split(parts[2], Semi)
                    IN  [k \in 1..Len(segs) |-> Format(name, Trim(segs[k]))]
               ELSE <<description>>
    ELSE <<description>>

\* the local `tasks` of add_task: the descriptions to insert
NewDescriptions(description) ==
  IF Contains(description, ColonSpace) /\ Contains(description, SemiSpace)
    THEN LET parts == SplitN2(description, ColonSpace)
         IN  IF Len(parts) = 2
               THEN LET name == Trim(parts[1])
                        segs == Split(parts[2], Semi)
                    IN  [k \in 1..Len(segs) |-> Format(name, Trim(segs[k]))]
               ELSE <<description>>
    ELSE <<description>>

\* Iterator::rposition(|t| t.status == Undone) as an Option
RPositionUndone(v) ==
  IF \E j \in 1..Len(v) : v[j].status = "Undone"
    THEN Some((CHOOSE j \in 1..Len(v) :
                 /\ v[j].status = "Undone"
                 /\ \A k \in (j + 1)..Len(v) : v[k].status # "Undone") - 1)
    ELSE None

InsertIndexAtReference(v, current_status, current_index) ==
  IF /\ current_status # None
     /\ current_status[1] \in {"Pending", "Undone"}
     /\ current_index # None
    THEN current_index[1]
    ELSE IF RPositionUndone(v) # None THEN RPositionUndone(v)[1] + 1 ELSE 0

InsertIndexAtEnd(v, current_status, current_index) ==
  IF /\ current_status # None
     /\ current_status[1] \in {"Pending", "Undone"}
     /\ current_index # None
    THEN current_index[1] + 1
    ELSE Len(v)

\* the initial value of insert_index
InsertIndex(v, current_status, current_index) ==
  IF /\ current_status # None
     /\ current_status[1] \in {"Pending", "Undone"}
     /\ current_index # None
    THEN current_index[1] + 1
    ELSE IF RPositionUndone(v) # None THEN RPositionUndone(v)[1] + 1 ELSE 0

NewStatusOfReference(current_status) ==
  IF current_status = None THEN "Undone" ELSE current_status[1]

\* the status given to every inserted task
NewStatus(current_status) ==
  IF current_status = Some("Pending") THEN "Pending" ELSE "Undone"

RECURSIVE InsertLoop(_, _, _, _, _)
\* the for loop of add_task, on the vector v; Vec::insert panics when the
\* index exceeds the length
InsertLoop(v, descs, insert_index, current_status, time) ==
  IF descs = <<>> THEN [tasks |-> v, panicked |-> FALSE]
  ELSE IF insert_index > Len(v) THEN [tasks |-> v, panicked |-> TRUE]
  ELSE InsertLoop(VecInsert(v, insert_index,
                            [description |-> Head(descs),
                             status |-> NewStatus(current_status),
                             created_at |-> Some(time)]),
                  Tail(descs), insert_index + 1, current_status, time)

\* the record of a call
Op(name, description, status, index) ==
  [op |-> name, description |-> description, status |-> status, index |-> index]

add_task(description, current_status, current_index) ==
  /\ ~panicked
  /\ LET r == InsertLoop(tasks, NewDescriptions(description),
                         InsertIndex(tasks, current_status, current_index),
                         current_status, now)
     IN  /\ tasks' = r.tasks
         /\ panicked' = r.panicked
  /\ last' = Op("add_task", description, current_status, current_index)
  /\ UNCHANGED now

(***************************************************************************)
(* delete_task, remove_done_tasks, edit_task                               *)
(***************************************************************************)
delete_task(index) ==
  /\ ~panicked
  /\ tasks' = IF index < Len(tasks) THEN VecRemove(tasks, index) ELSE tasks
  /\ last' = Op("delete_task", <<>>, None, Some(index))
  /\ UNCHANGED <<now, panicked>>

remove_done_tasks_first_only ==
  /\ ~panicked
  /\ tasks' = IF \E j \in 1..Len(tasks) : tasks[j].status = "Done"
                THEN VecRemove(tasks, (CHOOSE j \in 1..Len(tasks) :
                                         /\ tasks[j].status = "Done"
                                         /\ \A k \in 1..(j - 1) : tasks[k].status # "Done") - 1)
                ELSE tasks
  /\ last' = Op("remove_done_tasks", <<>>, None, None)
  /\ UNCHANGED <<now, panicked>>

remove_done_tasks ==
  /\ ~panicked
  /\ tasks' = SelectSeq(tasks, LAMBDA t : t.status # "Done")
  /\ last' = Op("remove_done_tasks", <<>>, None, None)
  /\ UNCHANGED <<now, panicked>>

edit_task_and_reorder(index, new_description) ==
  /\ ~panicked
  /\ tasks' = IF index < Len(tasks)
                THEN SortByKey([tasks EXCEPT ![index + 1].description = new_description])
                ELSE tasks
  /\ last' = Op("edit_task", new_description, None, Some(index))
  /\ UNCHANGED <<now, panicked>>

edit_task(index, new_description) ==
  /\ ~panicked
  /\ tasks' = IF index < Len(tasks)
                THEN [tasks EXCEPT ![index + 1].description = new_description]
                ELSE tasks
  /\ last' = Op("edit_task", new_description, None, Some(index))
  /\ UNCHANGED <<now, panicked>>

(***************************************************************************)
(* toggle_task, toggle_pending, reorder_tasks                              *)
(***************************************************************************)
ToggledPendingToDone(status) ==
  CASE status = "Undone" -> "Done"
    [] status = "Pending" -> "Done"
    [] status = "Done" -> "Undone"

\* the match of toggle_task
ToggledDoneToPending(status) ==
  CASE status = "Undone" -> "Done"
    [] status = "Pending" -> "Undone"
    [] status = "Done" -> "Pending"

Toggled(status) ==
  CASE status = "Undone" -> "Done"
    [] status = "Pending" -> "Undone"
    [] status = "Done" -> "Undone"

ToggledPendingDoneToUndone(status) ==
  CASE status = "Undone" -> "Pending"
    [] status = "Pending" -> "Undone"
    [] status = "Done" -> "Undone"

\* the match of toggle_pending
ToggledPending(status) ==
  CASE status = "Undone" -> "Pending"
    [] status = "Pending" -> "Undone"
    [] status = "Done" -> "Pending"

toggle_task_moved_last(index) ==
  /\ ~panicked
  /\ tasks' = IF index < Len(tasks)
                THEN InsertSorted(SortByKey(VecRemove(tasks, index)),
                                  [tasks[index + 1] EXCEPT
                                     !.status = Toggled(tasks[index + 1].status)])
                ELSE tasks
  /\ last' = Op("toggle_task", <<>>, None, Some(index))
  /\ UNCHANGED <<now, panicked>>

toggle_task_reorder_outside(index) ==
  /\ ~panicked
  /\ tasks' = SortByKey(IF index < Len(tasks)
                          THEN [tasks EXCEPT
                                  ![index + 1].status = Toggled(tasks[index + 1].status)]
                          ELSE tasks)
  /\ last' = Op("toggle_task", <<>>, None, Some(index))
  /\ UNCHANGED <<now, panicked>>

toggle_task(index) ==
  /\ ~panicked
  /\ tasks' = IF index < Len(tasks)
                THEN SortByKey([tasks EXCEPT
                                  ![index + 1].status = Toggled(tasks[index + 1].status)])
                ELSE tasks
  /\ last' = Op("toggle_task", <<>>, None, Some(index))
  /\ UNCHANGED <<now, panicked>>

toggle_pending(index) ==
  /\ ~panicked
  /\ tasks' = IF index < Len(tasks)
                THEN SortByKey([tasks EXCEPT
                                  ![index + 1].status =
                                     ToggledPending(tasks[index + 1].status)])
                ELSE tasks
  /\ last' = Op("toggle_pending", <<>>, None, Some(index))
  /\ UNCHANGED <<now, panicked>>

reorder_tasks ==
  /\ ~panicked
  /\ tasks' = SortByKey(tasks)
  /\ last' = Op("reorder_tasks", <<>>, None, None)
  /\ UNCHANGED <<now, panicked>>

(***************************************************************************)
(* Spec: the session. TodoApp::new(), then any sequence of calls.          *)
(***************************************************************************)
\* the descriptions submitted in the session: the empty input and a word
Descriptions == { <<>>, <<"a">> }

\* the indices passed to the operations: every position and one past the end
Indices == 0..MaxTasks

OptStatus == {None} \cup {Some(s) : s \in TaskStatus}

OptIndex == {None} \cup {Some(i) : i \in Indices}

\* the file as get_todo_file_path creates it: empty, which does not parse
EmptyFile == [valid |-> FALSE, tasks |-> <<>>]

\* the variables that the store does not own, before anything has used them
InitDriver ==
  /\ main_current_index = 0
  /\ filter = <<>>
  /\ input = <<>>
  /\ input_mode = "View"
  /\ file = EmptyFile

InitAux ==
  /\ ret = None
  /\ tracked = None
  /\ before = <<>>
  /\ more_done = 0
  /\ InitDriver

Init ==
  /\ tasks = <<>>
  /\ now = 0
  /\ panicked = FALSE
  /\ last = Op("new", <<>>, None, None)
  /\ InitAux

AddTask ==
  /\ \E d \in Descriptions, st \in OptStatus, ix \in OptIndex :
       /\ Len(tasks) + Len(NewDescriptions(d)) <= MaxTasks
       /\ add_task(d, st, ix)
  /\ UNCHANGED aux

DeleteTask ==
  /\ \E i \in Indices : delete_task(i)
  /\ UNCHANGED aux

RemoveDoneTasks ==
  /\ remove_done_tasks
  /\ UNCHANGED aux

EditTask ==
  /\ \E i \in Indices, d \in Descriptions : edit_task(i, d)
  /\ UNCHANGED aux

ToggleTask ==
  /\ \E i \in Indices : toggle_task(i)
  /\ UNCHANGED aux

TogglePending ==
  /\ \E i \in Indices : toggle_pending(i)
  /\ UNCHANGED aux

ReorderTasks ==
  /\ reorder_tasks
  /\ UNCHANGED aux

Next ==
  \/ AddTask
  \/ DeleteTask
  \/ RemoveDoneTasks
  \/ EditTask
  \/ ToggleTask
  \/ TogglePending
  \/ ReorderTasks

Spec == Init /\ [][Next]_vars

(***************************************************************************)
(* SpecCreate: one call of add_task on a store of up to two tasks, with    *)
(* every description of up to MaxDescLen characters over Alphabet and      *)
(* every combination of reference status and reference index.              *)
(***************************************************************************)
\* a letter, the two delimiters and the blank
Alphabet == {"a", ":", ";", " "}

StringsUpTo(n) == UNION {[1..k -> Alphabet] : k \in 0..n}

Groceries ==
  <<"G", "r", "o", "c", "e", "r", "i", "e", "s", ":", " ", "m", "i", "l",
    "k", ";", " ", "e", "g", "g", "s", ";", " ", "b", "r", "e", "a", "d">>

\* longer descriptions: the example of the specification, and a compound
\* description with blanks around the name and around the segments
LongDescriptions ==
  { Groceries,
    <<" ", "a", " ", ":", " ", "b", " ", ";", "c", ";", " ", "d">> }

CreateDescriptions == StringsUpTo(MaxDescLen) \cup LongDescriptions

\* the references tried with every description: none, and the first task as a
\* Pending one
FewReferences == {<<None, None>>, <<Some("Pending"), Some(0)>>}

\* the descriptions tried with every reference
FewDescriptions ==
  { <<>>, <<"a">>, <<"a", ":", " ", "b", ";", " ", "c">> }

CreateInputs ==
  {<<d, r[1], r[2]>> : d \in CreateDescriptions, r \in FewReferences}
    \cup (FewDescriptions \X OptStatus \X OptIndex)

\* the stores of up to two tasks
CreateStores ==
  UNION {[1..k -> [description : {<<"b">>},
                   status : TaskStatus,
                   created_at : {Some(0)}]] : k \in {0, 1, 2}}

InitCreate ==
  /\ tasks \in CreateStores
  /\ now = 0
  /\ panicked = FALSE
  /\ last = Op("new", <<>>, None, None)
  /\ InitAux

CreateTask ==
  /\ last.op = "new"
  /\ \E in \in CreateInputs : add_task(in[1], in[2], in[3])
  /\ UNCHANGED aux

NextCreate == CreateTask

SpecCreate == InitCreate /\ [][NextCreate]_vars

(***************************************************************************)
(* Vocabulary of the properties.                                           *)
(***************************************************************************)
\* the number of occurrences of x in the sequence s
Count(s, x) == Cardinality({j \in 1..Len(s) : s[j] = x})

\* t holds the same tasks as s, each as many times
IsPermutation(s, t) ==
  /\ Len(s) = Len(t)
  /\ \A j \in 1..Len(s) : Count(s, s[j]) = Count(t, s[j])

\* every Undone task is before every Pending one, every Pending one before
\* every Done one (and every Undone one before every Done one)
OrderedByStatus(s) ==
  \A j, k \in 1..Len(s) :
    (\/ s[j].status = "Undone" /\ s[k].status = "Pending"
     \/ s[j].status = "Pending" /\ s[k].status = "Done"
     \/ s[j].status = "Undone" /\ s[k].status = "Done") => j < k

\* the tasks of s that have the status st, in their order
OfStatus(s, st) == SelectSeq(s, LAMBDA t : t.status = st)

\* the step is a call of the operation name with an index inside the store
InBoundsCall(name) ==
  /\ last'.op = name
  /\ last'.index # None
  /\ last'.index[1] < Len(tasks)

\* the table of toggle_done as the specification gives it
DoneTable ==
  [Undone |-> "Done", Pending |-> "Undone", Done |-> "Undone"]

\* the table of toggle_pending as the specification gives it
PendingTable ==
  [Undone |-> "Pending", Pending |-> "Undone", Done |-> "Pending"]

\* the store holds exactly the tasks of before, the one at index with the status
\* the table gives it
OnlyStatusAt(index, table) ==
  IsPermutation(tasks',
                [tasks EXCEPT ![index + 1].status = table[tasks[index + 1].status]])

(***************************************************************************)
(* C1: toggle_done(i) with i in bounds gives the task at position i the    *)
(* status of the table Undone -> Done, Pending -> Undone, Done -> Undone;  *)
(* every other task keeps its status and description, and the number of    *)
(* tasks is unchanged.                                                     *)
(***************************************************************************)
C1_ToggleDoneTable ==
  [][InBoundsCall("toggle_task") =>
       /\ Len(tasks') = Len(tasks)
       /\ OnlyStatusAt(last'.index[1], DoneTable)]_vars

\* toggle_done has acted on a store that holds the three statuses afterwards
C1_Witness ==
  /\ last.op = "toggle_task"
  /\ last.index[1] < Len(tasks)
  /\ {tasks[j].status : j \in 1..Len(tasks)} = TaskStatus

(***************************************************************************)
(* C2: toggle_pending(i) with i in bounds gives the task at position i the *)
(* status of the table Undone -> Pending, Pending -> Undone,               *)
(* Done -> Pending; every other task keeps its status and description, and *)
(* the number of tasks is unchanged.                                       *)
(***************************************************************************)
C2_TogglePendingTable ==
  [][InBoundsCall("toggle_pending") =>
       /\ Len(tasks') = Len(tasks)
       /\ OnlyStatusAt(last'.index[1], PendingTable)]_vars

\* toggle_pending has acted on a store that holds the three statuses afterwards
C2_Witness ==
  /\ last.op = "toggle_pending"
  /\ last.index[1] < Len(tasks)
  /\ {tasks[j].status : j \in 1..Len(tasks)} = TaskStatus

(***************************************************************************)
(* C3: right after toggle_done(i) or toggle_pending(i) with i in bounds,   *)
(* whatever the order of the store before, the store is ordered by status. *)
(* (A toggle keeps the length, so i is in bounds after the call exactly    *)
(* when it was before.)                                                    *)
(***************************************************************************)
C3_ToggleLeavesOrdered ==
  (/\ last.op \in {"toggle_task", "toggle_pending"}
   /\ last.index[1] < Len(tasks)) => OrderedByStatus(tasks)

\* a toggle has acted and left Pending and Done tasks behind an Undone one
C3_Witness ==
  /\ last.op \in {"toggle_task", "toggle_pending"}
  /\ last.index[1] < Len(tasks)
  /\ Len(tasks) = 3
  /\ tasks[1].status = "Undone"
  /\ tasks[2].status = "Pending"
  /\ tasks[3].status = "Done"

(***************************************************************************)
(* C4: reorder is a stable sort by status rank: its result is a            *)
(* permutation of the store before, ordered Undone, Pending, Done, and the *)
(* tasks of one status are in the order they had before.                   *)
(***************************************************************************)
C4_ReorderStableSort ==
  [][last'.op = "reorder_tasks" =>
       /\ IsPermutation(tasks', tasks)
       /\ OrderedByStatus(tasks')
       /\ \A st \in TaskStatus : OfStatus(tasks', st) = OfStatus(tasks, st)]_vars

\* reorder has acted on a store with two different tasks of one status and a
\* task of another status
C4_Witness ==
  /\ last.op = "reorder_tasks"
  /\ \E j, k \in 1..Len(tasks) :
       /\ j < k
       /\ tasks[j].status = tasks[k].status
       /\ tasks[j].description # tasks[k].description
  /\ \E j, k \in 1..Len(tasks) : tasks[j].status # tasks[k].status

(***************************************************************************)
(* C6: no task of the store has the empty description, in any state        *)
(* reached from the empty store.                                           *)
(***************************************************************************)
C6_NoEmptyDescription ==
  \A j \in 1..Len(tasks) : tasks[j].description # <<>>

(***************************************************************************)
(* Vocabulary of the properties of create.                                 *)
(***************************************************************************)
\* the step is a call of add_task
CreateCall == last'.op = "add_task"

\* the step is a call of add_task that returns
CreateReturns == last'.op = "add_task" /\ ~panicked'

\* the store after the step is the store before it with n tasks put in at the
\* 0-based position pos
InsertedAt(pos, n) ==
  /\ pos <= Len(tasks)
  /\ Len(tasks') = Len(tasks) + n
  /\ SubSeq(tasks', 1, pos) = SubSeq(tasks, 1, pos)
  /\ SubSeq(tasks', pos + n + 1, Len(tasks')) = SubSeq(tasks, pos + 1, Len(tasks))

\* the position the specification gives for the insertion
ClaimedPosition(v, status, index) ==
  IF status \in {Some("Pending"), Some("Undone")} /\ index # None
    THEN index[1] + 1
    ELSE LET undone == {j \in 1..Len(v) : v[j].status = "Undone"}
         IN  IF undone = {} THEN 0
             ELSE CHOOSE j \in undone : \A k \in undone : k <= j

HasColonSpace(d) == \E j \in 1..(Len(d) - 1) : d[j] = ":" /\ d[j + 1] = " "

HasSemiSpace(d) == \E j \in 1..(Len(d) - 1) : d[j] = ";" /\ d[j + 1] = " "

IsCompound(d) == HasColonSpace(d) /\ HasSemiSpace(d)

\* where the first ": " of a description that has one starts
FirstColonSpace(d) ==
  CHOOSE j \in 1..(Len(d) - 1) :
    /\ d[j] = ":" /\ d[j + 1] = " "
    /\ \A k \in 1..(j - 1) : ~(d[k] = ":" /\ d[k + 1] = " ")

\* the text before the first ": " and the text after it
NameOf(d) == SubSeq(d, 1, FirstColonSpace(d) - 1)

RestOf(d) == SubSeq(d, FirstColonSpace(d) + 2, Len(d))

\* the cuts of a text at its semicolons: 0, the places of the ";", and one
\* past the end; Cut(r, k) is the k-th of them, counted from 0
Cuts(r) == {0, Len(r) + 1} \cup {j \in 1..Len(r) : r[j] = ";"}

Cut(r, k) == CHOOSE c \in Cuts(r) : Cardinality({x \in Cuts(r) : x < c}) = k

\* the segments between the semicolons
Segments(r) ==
  [k \in 1..(Cardinality(Cuts(r)) - 1) |->
     SubSeq(r, Cut(r, k - 1) + 1, Cut(r, k) - 1)]

\* a text without its leading and trailing blanks
Stripped(t) ==
  LET inked == {j \in 1..Len(t) : t[j] # " "}
  IN  IF inked = {} THEN <<>>
      ELSE SubSeq(t, CHOOSE j \in inked : \A k \in inked : j <= k,
                     CHOOSE j \in inked : \A k \in inked : k <= j)

\* "{name}: {segment}" for every segment of the rest of d, trimmed
Synthesized(name, d) ==
  [k \in 1..Len(Segments(RestOf(d))) |->
     name \o <<":", " ">> \o Stripped(Segments(RestOf(d))[k])]

\* the descriptions of the n tasks from the 0-based position pos on
DescriptionsAt(v, pos, n) == [k \in 1..n |-> v[pos + k].description]

GroceriesTasks ==
  << <<"G", "r", "o", "c", "e", "r", "i", "e", "s", ":", " ", "m", "i", "l",
       "k">>,
     <<"G", "r", "o", "c", "e", "r", "i", "e", "s", ":", " ", "e", "g", "g",
       "s">>,
     <<"G", "r", "o", "c", "e", "r", "i", "e", "s", ":", " ", "b", "r", "e",
       "a", "d">> >>

(***************************************************************************)
(* C5: create never aborts: whatever the description, the reference status *)
(* and the reference index, the call returns and has inserted a task.      *)
(***************************************************************************)
C5_CreateNeverAborts ==
  [][CreateCall => ~panicked' /\ Len(tasks') > Len(tasks)]_vars

(***************************************************************************)
(* C7: create inserts at reference_index + 1 when it is given a reference  *)
(* status Pending or Undone and a reference index, and otherwise one past  *)
(* the last Undone task, or at 0 when there is none; the tasks that were   *)
(* in the store keep their status, description and order.                  *)
(***************************************************************************)
C7_InsertionPosition ==
  [][(CreateCall =>
        \E p \in 0..Len(tasks) : InsertedAt(p, Len(tasks') - Len(tasks)))
     /\ (CreateReturns =>
           /\ Len(tasks') > Len(tasks)
           /\ InsertedAt(ClaimedPosition(tasks, last'.status, last'.index),
                         Len(tasks') - Len(tasks)))]_vars

\* create has inserted behind an Undone or Pending reference that is not the
\* last task of the store
C7_Witness ==
  /\ last.op = "add_task"
  /\ ~panicked
  /\ last.status \in {Some("Pending"), Some("Undone")}
  /\ last.index = Some(0)
  /\ Len(tasks) = 3
  /\ tasks[1].description = <<"b">>
  /\ tasks[2].description = <<"a">>
  /\ tasks[3].description = <<"b">>

C9_SingleVerbatim ==
  [][(CreateReturns /\ last'.description # <<>> /\ ~IsCompound(last'.description)) =>
       \E p \in 0..Len(tasks) :
         /\ InsertedAt(p, 1)
         /\ tasks'[p + 1].description = last'.description]_vars

\* create has inserted a description that has a blank in front, a ": " and
\* no "; "
C9_Witness ==
  /\ last.op = "add_task"
  /\ ~panicked
  /\ last.description = <<" ", "a", ":", " ", ";">>
  /\ \E j \in 1..Len(tasks) : tasks[j].description = last.description

(***************************************************************************)
(* C10: every task that create inserts, alone or from a compound           *)
(* description, is Pending when the reference status is Pending and Undone *)
(* in every other case; none is Done.                                      *)
(***************************************************************************)
C10_InsertedStatus ==
  [][CreateCall =>
       \E p \in 0..Len(tasks) :
         /\ InsertedAt(p, Len(tasks') - Len(tasks))
         /\ \A k \in 1..(Len(tasks') - Len(tasks)) :
              /\ tasks'[p + k].status =
                   IF last'.status = Some("Pending") THEN "Pending" ELSE "Undone"
              /\ tasks'[p + k].status # "Done"]_vars

\* create has inserted the tasks of a compound description with a Done reference
C10_Witness ==
  /\ last.op = "add_task"
  /\ ~panicked
  /\ last.status = Some("Done")
  /\ last.index # None
  /\ IsCompound(last.description)
  /\ Len(tasks) >= 3

(***************************************************************************)
(* C11: delete, edit, toggle_done and toggle_pending with an index at or   *)
(* past the length leave the store as it is, in the same order (no         *)
(* re-sort), and signal no error.                                          *)
(***************************************************************************)
C11_OutOfBoundsIgnored ==
  [][(/\ last'.op \in {"delete_task", "edit_task", "toggle_task", "toggle_pending"}
      /\ last'.index[1] >= Len(tasks))
       => tasks' = tasks /\ ~panicked']_vars

\* toggle_done with an index past the end has left an unordered store unordered
C11_Witness ==
  /\ last.op = "toggle_task"
  /\ last.index[1] >= Len(tasks)
  /\ ~panicked
  /\ ~OrderedByStatus(tasks)

(***************************************************************************)
(* C15: edit(i, d) with i in bounds replaces the description of the task   *)
(* at position i by d and nothing else: that task keeps its status, its    *)
(* creation time and its position, and every other task is unchanged.      *)
(***************************************************************************)
C15_EditOnlyDescription ==
  [][InBoundsCall("edit_task") =>
       LET i == last'.index[1] + 1
       IN  /\ Len(tasks') = Len(tasks)
           /\ tasks'[i].description = last'.description
           /\ tasks'[i].status = tasks[i].status
           /\ tasks'[i].created_at = tasks[i].created_at
           /\ \A j \in 1..Len(tasks) : j # i => tasks'[j] = tasks[j]]_vars

\* edit has given the empty description to a Pending task that stands before an
\* Undone one
C15_Witness ==
  /\ last.op = "edit_task"
  /\ last.index = Some(0)
  /\ last.description = <<>>
  /\ Len(tasks) >= 2
  /\ tasks[1] = [description |-> <<>>, status |-> "Pending", created_at |-> Some(0)]
  /\ tasks[2].status = "Undone"

(***************************************************************************)
(* C16: delete(i) with i in bounds removes the task at position i and no   *)
(* other: the store is one shorter, and the other tasks are unchanged and  *)
(* in the same order.                                                      *)
(***************************************************************************)
C16_DeleteExactlyOne ==
  [][InBoundsCall("delete_task") =>
       LET i == last'.index[1] + 1
       IN  /\ Len(tasks') = Len(tasks) - 1
           /\ \A j \in 1..(i - 1) : tasks'[j] = tasks[j]
           /\ \A j \in (i + 1)..Len(tasks) : tasks'[j - 1] = tasks[j]]_vars

\* delete has removed a task that was not the last one: two tasks are left and
\* the index of the call is still inside the store
C16_Witness ==
  /\ last.op = "delete_task"
  /\ last.index = Some(0)
  /\ Len(tasks) = 2
  /\ tasks[1] # tasks[2]

(***************************************************************************)
(* SpecRemove: remove_done_tasks on every store of up to MaxRemoveLen      *)
(* tasks.  The store is one that a session or a load can have produced:    *)
(* any sequence of tasks, in any order of statuses.                        *)
(***************************************************************************)
MaxRemoveLen == 5

RemoveTasks ==
  [description : {<<"a">>, <<"b">>}, status : TaskStatus, created_at : {Some(0)}]

RemoveStores == UNION {[1..n -> RemoveTasks] : n \in 0..MaxRemoveLen}

InitRemove ==
  /\ tasks \in RemoveStores
  /\ now = 0
  /\ panicked = FALSE
  /\ last = Op("new", <<>>, None, None)
  /\ InitAux

RemoveCompleted ==
  /\ last.op = "new"
  /\ remove_done_tasks
  /\ before' = tasks
  /\ UNCHANGED <<ret, tracked, more_done, driver>>

NextRemove == RemoveCompleted

SpecRemove == InitRemove /\ [][NextRemove]_vars

\* the positions of s whose task is not Done
NotDone(s) == {j \in 1..Len(s) : s[j].status # "Done"}

\* t is s without its Done tasks: the j-th task that is not Done in s is the
\* j-th task of t, and t has no other task
WithoutDone(s, t) ==
  /\ Len(t) = Cardinality(NotDone(s))
  /\ \A j \in NotDone(s) : t[Cardinality({k \in NotDone(s) : k <= j})] = s[j]

(***************************************************************************)
(* C12: remove_completed leaves exactly the tasks that are not Done, each  *)
(* once, unchanged and in the order they had; of five tasks with the ones  *)
(* at indices 1 and 3 Done it leaves those of indices 0, 2 and 4.          *)
(***************************************************************************)
C12_RemoveCompleted ==
  [][last'.op = "remove_done_tasks" =>
       /\ WithoutDone(tasks, tasks')
       /\ \A j \in 1..Len(tasks') : tasks'[j].status # "Done"
       /\ (/\ Len(tasks) = 5
           /\ {j \in 1..5 : tasks[j].status = "Done"} = {2, 4})
            => tasks' = <<tasks[1], tasks[3], tasks[5]>>]_vars

\* remove_completed has acted on five tasks of which those at indices 1 and 3
\* were Done and the other three differ from one another
C12_Witness ==
  /\ last.op = "remove_done_tasks"
  /\ Len(before) = 5
  /\ {j \in 1..5 : before[j].status = "Done"} = {2, 4}
  /\ before[1] # before[3] /\ before[3] # before[5] /\ before[1] # before[5]
  /\ tasks = <<before[1], before[3], before[5]>>

(***************************************************************************)
(* f32, the type of the result of completion_percentage.  A value is       *)
(* m * 2^e, written [m, e] with m odd, or [0, 0].  The values of this      *)
(* model are far from the ends of the exponent range, which is left out.   *)
(***************************************************************************)
F32Bits == 24

RECURSIVE BitLen(_)
BitLen(n) == IF n = 0 THEN 0 ELSE 1 + BitLen(n \div 2)

RECURSIVE Canon(_, _)
Canon(m, e) ==
  IF m = 0 THEN [m |-> 0, e |-> 0]
  ELSE IF m % 2 = 0 THEN Canon(m \div 2, e + 1)
  ELSE [m |-> m, e |-> e]

\* p * 2^e rounded to the nearest value of F32Bits bits, a tie to the even one
RoundF32(p, e) ==
  LET s == BitLen(p) - F32Bits
  IN  IF s <= 0
      THEN Canon(p, e)
      ELSE LET m    == p \div 2^s
               rem  == p % 2^s
               half == 2^(s - 1)
               up   == rem > half \/ (rem = half /\ m % 2 = 1)
           IN  Canon(IF up THEN m + 1 ELSE m, e + s)

\* n as f32, n a usize
AsF32(n) == RoundF32(n, 0)

\* bits more binary digits of the quotient by b, after the digits q, with
\* the remainder r
RECURSIVE LongDiv(_, _, _, _)
LongDiv(q, r, b, bits) ==
  IF bits = 0 THEN [q |-> q, r |-> r]
  ELSE IF 2 * r >= b THEN LongDiv(2 * q + 1, 2 * r - b, b, bits - 1)
  ELSE LongDiv(2 * q, 2 * r, b, bits - 1)

\* a / b in f32, b not zero: the quotient to F32Bits + 2 digits and one more
\* digit that says whether anything is left, then rounded
F32Div(a, b) ==
  IF a.m = 0 THEN a
  ELSE LET la == BitLen(a.m)
           lb == BitLen(b.m)
           x  == a.m * 2^(IF lb > la THEN lb - la ELSE 0)
           y  == b.m * 2^(IF la > lb THEN la - lb ELSE 0)
           d  == LongDiv(x \div y, x % y, y, F32Bits + 1)
           sticky == IF d.r = 0 THEN 0 ELSE 1
       IN  RoundF32(2 * d.q + sticky, a.e - b.e + (la - lb) - (F32Bits + 2))

\* a * b in f32
F32Mul(a, b) == RoundF32(a.m * b.m, a.e + b.e)

completion_percentage_counting_pending(v, more) ==
  LET done_count == Len(SelectSeq(v, LAMBDA t : t.status = "Done")) + more
      total_count == Len(v) + more
  IN  IF total_count = 0
      THEN AsF32(0)
      ELSE F32Mul(F32Div(AsF32(done_count), AsF32(total_count)), AsF32(100))

\* completion_percentage of the store v followed by more Done tasks
completion_percentage(v, more) ==
  LET done_count == Len(SelectSeq(v, LAMBDA t : t.status = "Done")) + more
      undone_count == Len(SelectSeq(v, LAMBDA t : t.status = "Undone"))
      total_count == done_count + undone_count
  IN  IF total_count = 0
      THEN AsF32(0)
      ELSE F32Mul(F32Div(AsF32(done_count), AsF32(total_count)), AsF32(100))

(***************************************************************************)
(* SpecPercent: completion_percentage on every store of up to              *)
(* MaxPercentLen tasks, and on the long stores that such a store begins:   *)
(* the counts are usize and a store can hold more tasks than f32 has       *)
(* digits for.                                                             *)
(***************************************************************************)
MaxPercentLen == 5

PercentTasks ==
  [description : {<<"a">>}, status : TaskStatus, created_at : {Some(0)}]

PercentStores == UNION {[1..n -> PercentTasks] : n \in 0..MaxPercentLen}

MoreDone == {0, 2^F32Bits - 1, 2^F32Bits}

InitPercent ==
  /\ tasks \in PercentStores
  /\ now = 0
  /\ panicked = FALSE
  /\ last = Op("new", <<>>, None, None)
  /\ ret = None
  /\ tracked = None
  /\ before = <<>>
  /\ more_done \in MoreDone
  /\ InitDriver

CompletionPercentage ==
  /\ ~panicked
  /\ last.op = "new"
  /\ ret' = Some(completion_percentage(tasks, more_done))
  /\ last' = Op("completion_percentage", <<>>, None, None)
  /\ UNCHANGED <<tasks, now, panicked, tracked, before, more_done, driver>>

NextPercent == CompletionPercentage

SpecPercent == InitPercent /\ [][NextPercent]_vars

\* the numbers of Done and of Undone tasks of the store
DoneCount == Len(OfStatus(tasks, "Done")) + more_done
UndoneCount == Len(OfStatus(tasks, "Undone"))
PendingCount == Len(OfStatus(tasks, "Pending"))

\* completion_percentage has returned, and r is the value
Returned(r) == last.op = "completion_percentage" /\ ret = Some(r)

\* the f32 values 0, 50 and 100
F32Zero == [m |-> 0, e |-> 0]
F32Fifty == [m |-> 25, e |-> 1]
F32Hundred == [m |-> 25, e |-> 2]

\* the position of the digit before the first digit of a, a not zero
Magnitude(a) == BitLen(a.m) + a.e

\* a < b, for two values that are not negative
F32Less(a, b) ==
  IF b.m = 0 THEN FALSE
  ELSE IF a.m = 0 THEN TRUE
  ELSE IF Magnitude(a) # Magnitude(b) THEN Magnitude(a) < Magnitude(b)
  ELSE LET lo == IF a.e < b.e THEN a.e ELSE b.e
       IN  a.m * 2^(a.e - lo) < b.m * 2^(b.e - lo)

\* the totals up to which the comparisons below stay inside TLC's integers
SmallTotal(t) == t <= 2^6

\* r is 100 * d / t as a real number, for t > 0 small
ExactPercentage(r, d, t) ==
  IF r.e >= 0
  THEN r.m * 2^(r.e) * t = 100 * d
  ELSE -r.e <= 6 /\ r.m * t = 100 * d * 2^(-r.e)

\* r is within one and a half units of its last f32 digit of 100 * d / t, for
\* t > 0 small: both sides are scaled by t and by the unit
NearPercentage(r, d, t) ==
  IF r.m = 0 THEN d = 0
  ELSE LET unit == Magnitude(r) - F32Bits
           diff == r.m * 2^(r.e - unit) * t - 100 * d * 2^(-unit)
       IN  /\ unit <= 0
           /\ 2 * diff <= 3 * t
           /\ -2 * diff <= 3 * t

\* what the two statements below share: the result is 0 without Done and
\* Undone tasks, lies in [0, 100], is 100 when every task that is not Pending
\* is Done, is 50 for one Done and one Undone task, and is the result for the
\* store without its Pending tasks
PercentageCommon(r) ==
  /\ DoneCount + UndoneCount = 0 => r = F32Zero
  /\ r.m >= 0 /\ ~F32Less(F32Hundred, r)
  /\ (DoneCount > 0 /\ UndoneCount = 0) => r = F32Hundred
  /\ (DoneCount = 1 /\ UndoneCount = 1) => r = F32Fifty
  /\ r = completion_percentage(SelectSeq(tasks, LAMBDA t : t.status # "Pending"),
                               more_done)

C13_WitnessRounded ==
  /\ Returned([m |-> 15728641, e |-> -18])
  /\ DoneCount = 3 /\ UndoneCount = 2

\* 2^24 Done tasks and one Undone one: 100
C13_WitnessLong ==
  /\ Returned(F32Hundred)
  /\ UndoneCount = 1

(***************************************************************************)
(* filter_tasks, and SpecFilter: filter_tasks with every query of          *)
(* FilterQueries on every store of up to MaxFilterLen tasks.               *)
(***************************************************************************)
filter_tasks_by_prefix(query) ==
  /\ ~panicked
  /\ ret' = Some(SelectSeq(tasks, LAMBDA task :
                    /\ Len(query) <= Len(task.description)
                    /\ SubSeq(task.description, 1, Len(query)) = query))
  /\ last' = Op("filter_tasks", query, None, None)
  /\ UNCHANGED <<tasks, now, panicked>>

filter_tasks(query) ==
  /\ ~panicked
  /\ ret' = Some(SelectSeq(tasks, LAMBDA task : Contains(task.description, query)))
  /\ last' = Op("filter_tasks", query, None, None)
  /\ UNCHANGED <<tasks, now, panicked>>

MaxFilterLen == 3

FilterDescriptions == { <<>>, <<"a">>, <<"b">>, <<"a", "b">>, <<"b", "a">> }

FilterQueries == FilterDescriptions \cup { <<"a", "a">> }

FilterTasks ==
  [description : FilterDescriptions, status : {"Undone", "Done"}, created_at : {Some(0)}]

FilterStores == UNION {[1..n -> FilterTasks] : n \in 0..MaxFilterLen}

InitFilter ==
  /\ tasks \in FilterStores
  /\ now = 0
  /\ panicked = FALSE
  /\ last = Op("new", <<>>, None, None)
  /\ InitAux

FilterTasksBy ==
  /\ last.op = "new"
  /\ \E query \in FilterQueries : filter_tasks(query)
  /\ UNCHANGED <<tracked, before, more_done, driver>>

NextFilter == FilterTasksBy

SpecFilter == InitFilter /\ [][NextFilter]_vars

\* q stands somewhere in d, letter for letter
HasSubstring(d, q) ==
  \E i \in 0..(Len(d) - Len(q)) : SubSeq(d, i + 1, i + Len(q)) = q

\* t is s restricted to the positions of keep, in the order of s
Restricted(s, keep, t) ==
  /\ Len(t) = Cardinality(keep)
  /\ \A j \in keep : t[Cardinality({k \in keep : k <= j})] = s[j]

(***************************************************************************)
(* C14: filter(query) returns exactly the tasks whose description contains *)
(* query as a literal substring, in the order of the store, and leaves the *)
(* store as it is; filter("") returns the whole store, same count and      *)
(* order.                                                                  *)
(***************************************************************************)
C14_FilterSubstring ==
  [][last'.op = "filter_tasks" =>
       LET query == last'.description
           keep  == {j \in 1..Len(tasks) : HasSubstring(tasks[j].description, query)}
       IN  /\ ret' # None
           /\ Restricted(tasks, keep, ret'[1])
           /\ tasks' = tasks
           /\ query = <<>> => ret'[1] = tasks]_vars

\* filter("a") has returned the first and the third of three tasks: "ba",
\* where the query is not at the start, and "ab"; the second, "b", is left out
C14_Witness ==
  /\ last.op = "filter_tasks"
  /\ last.description = <<"a">>
  /\ Len(tasks) = 3
  /\ tasks[1].description = <<"b", "a">>
  /\ tasks[2].description = <<"b">>
  /\ tasks[3].description = <<"a", "b">>
  /\ ret = Some(<<tasks[1], tasks[3]>>)

(***************************************************************************)
(* SpecTwice: toggle_task twice on one task.  The stores have up to        *)
(* MaxTwiceLen tasks of any statuses in any order; the descriptions are    *)
(* all different, so that a task can be found again after the re-sort.     *)
(***************************************************************************)
MaxTwiceLen == 4

\* the description of the j-th task: j letters
TwiceDescription(j) == [k \in 1..j |-> "a"]

TwiceStores ==
  UNION {{[j \in 1..n |-> [description |-> TwiceDescription(j),
                           status |-> st[j],
                           created_at |-> Some(0)]] : st \in [1..n -> TaskStatus]}
         : n \in 0..MaxTwiceLen}

InitTwice ==
  /\ tasks \in TwiceStores
  /\ now = 0
  /\ panicked = FALSE
  /\ last = Op("new", <<>>, None, None)
  /\ InitAux

\* the first toggle, of a task that is Undone
ToggleFirst ==
  /\ tracked = None
  /\ \E index \in 0..(Len(tasks) - 1) :
       /\ tasks[index + 1].status = "Undone"
       /\ toggle_task(index)
       /\ tracked' = Some([description |-> tasks[index + 1].description,
                           first_index |-> index,
                           toggles |-> 1])
  /\ UNCHANGED <<ret, before, more_done, driver>>

\* the second toggle, of the same task, at the index where it is now
ToggleAgain ==
  /\ tracked # None
  /\ tracked[1].toggles = 1
  /\ \E index \in 0..(Len(tasks) - 1) :
       /\ tasks[index + 1].description = tracked[1].description
       /\ toggle_task(index)
  /\ tracked' = Some([tracked[1] EXCEPT !.toggles = 2])
  /\ UNCHANGED <<ret, before, more_done, driver>>

NextTwice == ToggleFirst \/ ToggleAgain

SpecTwice == InitTwice /\ [][NextTwice]_vars

\* the positions of the tracked task in the store
TrackedAt == {j \in 1..Len(tasks) : tasks[j].description = tracked[1].description}

(***************************************************************************)
(* C17: toggle_done applied twice to the same task, found again after the  *)
(* re-sort and Undone at first, makes it Done and then Undone.             *)
(***************************************************************************)
C17_ToggleTwice ==
  tracked # None =>
    /\ Cardinality(TrackedAt) = 1
    /\ \A j \in TrackedAt :
         /\ tracked[1].toggles = 1 => tasks[j].status = "Done"
         /\ tracked[1].toggles = 2 => tasks[j].status = "Undone"

\* the task has been toggled twice, the second time at another index than the
\* first time, and stands now at a third one
C17_Witness ==
  /\ tracked # None
  /\ tracked[1].toggles = 2
  /\ last.op = "toggle_task"
  /\ last.index[1] # tracked[1].first_index
  /\ \A j \in TrackedAt : /\ j - 1 # tracked[1].first_index
                          /\ j - 1 # last.index[1]
                          /\ tasks[j].status = "Undone"

(***************************************************************************)
(* SpecClock: a session in which the clock advances between the calls.     *)
(* The store starts empty and holds up to MaxClockTasks tasks; the clock   *)
(* reads 0..MaxClock.  add_task is called with the description "a", edit   *)
(* writes "b".                                                             *)
(***************************************************************************)
MaxClock == 1

MaxClockTasks == 2

ClockIndices == 0..MaxClockTasks

\* the clock moves on between two calls
Tick ==
  /\ ~panicked
  /\ now < MaxClock
  /\ now' = now + 1
  /\ last' = Op("tick", <<>>, None, None)
  /\ UNCHANGED <<tasks, panicked, aux>>

ClockAddTask ==
  /\ Len(tasks) < MaxClockTasks
  /\ \E st \in OptStatus, ix \in {None} \cup {Some(i) : i \in 0..(Len(tasks) - 1)} :
       add_task(<<"a">>, st, ix)
  /\ UNCHANGED aux

ClockDeleteTask ==
  /\ \E i \in ClockIndices : delete_task(i)
  /\ UNCHANGED aux

ClockEditTask ==
  /\ \E i \in ClockIndices : edit_task(i, <<"b">>)
  /\ UNCHANGED aux

ClockToggleTask ==
  /\ \E i \in ClockIndices : toggle_task(i)
  /\ UNCHANGED aux

ClockTogglePending ==
  /\ \E i \in ClockIndices : toggle_pending(i)
  /\ UNCHANGED aux

NextClock ==
  \/ Tick
  \/ ClockAddTask
  \/ ClockDeleteTask
  \/ RemoveDoneTasks
  \/ ClockEditTask
  \/ ClockToggleTask
  \/ ClockTogglePending
  \/ ReorderTasks

SpecClock == Init /\ [][NextClock]_vars

\* position for position, the creation times after the step are those before it
SameTimesInPlace ==
  /\ Len(tasks') = Len(tasks)
  /\ \A j \in 1..Len(tasks) : tasks'[j].created_at = tasks[j].created_at

\* the tasks after the step are the tasks before it in some order, each with
\* the description and the creation time it had
SameTimesMoved ==
  \E pi \in Permutations(1..Len(tasks)) :
    /\ Len(tasks') = Len(tasks)
    /\ \A j \in 1..Len(tasks) :
         /\ tasks'[pi[j]].created_at = tasks[j].created_at
         /\ tasks'[pi[j]].description = tasks[j].description

\* the tasks after the step are some of the tasks before it, unchanged and in
\* the order they had
SomeRemain == \E keep \in SUBSET (1..Len(tasks)) : Restricted(tasks, keep, tasks')

\* the step has put tasks in, each with the reading of the clock as its
\* creation time, and has left the others as they were
NewOnesStamped ==
  \E p \in 0..Len(tasks) :
    /\ InsertedAt(p, Len(tasks') - Len(tasks))
    /\ \A k \in 1..(Len(tasks') - Len(tasks)) : tasks'[p + k].created_at = Some(now)

(***************************************************************************)
(* C18: created_at is set when create inserts the task and no later call   *)
(* changes it: edit, toggle_done, toggle_pending, reorder, delete,         *)
(* remove_completed and later creates leave the creation time of every     *)
(* task that stays in the store; reorder orders by status alone, whatever  *)
(* the creation times are.                                                 *)
(***************************************************************************)
C18_CreatedAtSetOnce ==
  [][/\ last'.op = "add_task" => NewOnesStamped
     /\ last'.op = "edit_task" => SameTimesInPlace
     /\ last'.op \in {"toggle_task", "toggle_pending", "reorder_tasks"} => SameTimesMoved
     /\ last'.op \in {"delete_task", "remove_done_tasks"} => SomeRemain
     /\ last'.op = "reorder_tasks" =>
          \A st \in TaskStatus : OfStatus(tasks', st) = OfStatus(tasks, st)]_vars

\* reorder has acted on two tasks of one status of which the first was created
\* after the second, and has left them so
C18_Witness ==
  /\ last.op = "reorder_tasks"
  /\ Len(tasks) = 2
  /\ tasks[1].status = tasks[2].status
  /\ tasks[1].created_at = Some(1)
  /\ tasks[2].created_at = Some(0)

(***************************************************************************)
(* The driver, main.  It has a TodoApp of its own, with tasks that have a  *)
(* flag done in the place of a status; its operations are named main_...   *)
(* here.  tasks holds app.tasks of main in the specifications of the       *)
(* driver.  The todo file holds a snapshot of the tasks, or something that *)
(* does not parse (valid = FALSE), as the empty file that                  *)
(* get_todo_file_path creates.                                             *)
(***************************************************************************)
Snapshot(v) == [valid |-> TRUE, tasks |-> v]

\* load_from_file, and TodoApp::new() when it fails
main_load_from_file(f) == IF f.valid THEN f.tasks ELSE <<>>

main_add_task(v, description, time) ==
  LET done == {j \in 1..Len(v) : v[j].done}
      index == IF done = {} THEN Len(v)
               ELSE (CHOOSE j \in done : \A k \in done : j <= k) - 1
  IN  VecInsert(v, index,
                [description |-> description, done |-> FALSE, created_at |-> Some(time)])

main_edit_task(v, index, new_description) ==
  IF index < Len(v) THEN [v EXCEPT ![index + 1].description = new_description] ELSE v

\* sort_by_key(|t| t.done): stable, false before true
main_reorder_tasks(v) ==
  SelectSeq(v, LAMBDA t : ~t.done) \o SelectSeq(v, LAMBDA t : t.done)

main_toggle_task(v, index) ==
  IF index < Len(v)
    THEN main_reorder_tasks([v EXCEPT ![index + 1].done = ~v[index + 1].done])
    ELSE v

main_filter_tasks(v, query) == SelectSeq(v, LAMBDA task : Contains(task.description, query))

PositionLast(v, description) ==
  LET found == {j \in 1..Len(v) : v[j].description = description}
  IN  IF found = {} THEN None
      ELSE Some((CHOOSE j \in found : \A k \in found : k <= j) - 1)

\* iter().position(|t| t.description == description), as an Option
Position(v, description) ==
  LET found == {j \in 1..Len(v) : v[j].description = description}
  IN  IF found = {} THEN None
      ELSE Some((CHOOSE j \in found : \A k \in found : j <= k) - 1)

\* the ways save_to_file can end: the file is written; it cannot be opened and
\* stays as it is; it is opened, which empties it, and the write fails
SaveOutcomes == {"written", "not_opened", "cut_short"}

FileAfterSaveStale(v, outcome) ==
  CASE outcome = "written" -> file
    [] outcome = "not_opened" -> file
    [] outcome = "cut_short" -> EmptyFile

\* the file after save_to_file: fs::write creates or truncates, then writes
FileAfterSave(v, outcome) ==
  CASE outcome = "written" -> Snapshot(v)
    [] outcome = "not_opened" -> file
    [] outcome = "cut_short" -> EmptyFile

\* save_to_file of the tasks v; main drops the Result
main_save_to_file(v, outcome) ==
  /\ file' = FileAfterSave(v, outcome)
  /\ ret' = Some(IF outcome = "written" THEN "Ok" ELSE "Err")

\* the input lines that the user types
Inputs == { <<>>, <<"a">> }

\* a key that changes neither the tasks nor the file
Key == Op("key", <<>>, None, None)

\* 'b': the backup copies the todo file and leaves it as it is
KeyChar_b ==
  /\ ~panicked
  /\ UNCHANGED scenario
  /\ last' = Key
  /\ UNCHANGED <<tasks, now, panicked, ret, driver>>

KeyChar_j ==
  /\ ~panicked
  /\ UNCHANGED scenario
  /\ input_mode = "View"
  /\ LET tasks_filtered_len == Len(main_filter_tasks(tasks, filter))
     IN  main_current_index' = IF main_current_index + 1 < tasks_filtered_len
                                 THEN main_current_index + 1
                                 ELSE main_current_index
  /\ last' = Key
  /\ UNCHANGED <<tasks, now, panicked, ret, filter, input, input_mode, file>>

KeyChar_k ==
  /\ ~panicked
  /\ UNCHANGED scenario
  /\ input_mode = "View"
  /\ main_current_index' = IF main_current_index > 0
                             THEN main_current_index - 1
                             ELSE main_current_index
  /\ last' = Key
  /\ UNCHANGED <<tasks, now, panicked, ret, filter, input, input_mode, file>>

KeySpace(outcome) ==
  /\ ~panicked
  /\ UNCHANGED scenario
  /\ IF input_mode = "View"
       THEN LET tasks_filtered == main_filter_tasks(tasks, filter)
            IN  IF main_current_index < Len(tasks_filtered)
                  THEN LET task == tasks_filtered[main_current_index + 1]
                           original_index == Position(tasks, task.description)
                       IN  IF original_index = None
                             THEN /\ panicked' = TRUE
                                  /\ last' = Key
                                  /\ UNCHANGED <<tasks, ret, file, input>>
                             ELSE /\ tasks' = main_toggle_task(tasks, original_index[1])
                                  /\ main_save_to_file(tasks', outcome)
                                  /\ last' = Op("toggle", <<>>, None, original_index)
                                  /\ UNCHANGED <<panicked, input>>
                  ELSE /\ last' = Key
                       /\ UNCHANGED <<tasks, panicked, ret, file, input>>
       ELSE /\ Append(input, " ") \in Inputs
            /\ input' = Append(input, " ")
            /\ last' = Key
            /\ UNCHANGED <<tasks, panicked, ret, file>>
  /\ UNCHANGED <<now, main_current_index, filter, input_mode>>

KeyChar_o ==
  /\ ~panicked
  /\ UNCHANGED scenario
  /\ input_mode = "View"
  /\ input_mode' = "Add"
  /\ input' = <<>>
  /\ last' = Key
  /\ UNCHANGED <<tasks, now, panicked, ret, main_current_index, filter, file>>

KeySlash ==
  /\ ~panicked
  /\ UNCHANGED scenario
  /\ input_mode = "View"
  /\ input_mode' = "Filter"
  /\ input' = <<>>
  /\ last' = Key
  /\ UNCHANGED <<tasks, now, panicked, ret, main_current_index, filter, file>>

KeyChar_i ==
  /\ ~panicked
  /\ UNCHANGED scenario
  /\ input_mode = "View"
  /\ input_mode' = "Edit"
  /\ LET tasks_filtered == main_filter_tasks(tasks, filter)
     IN  input' = IF main_current_index < Len(tasks_filtered)
                    THEN tasks_filtered[main_current_index + 1].description
                    ELSE <<>>
  /\ last' = Key
  /\ UNCHANGED <<tasks, now, panicked, ret, main_current_index, filter, file>>

MaxDriverTasks == 2

KeyEnter(outcome) ==
  /\ ~panicked
  /\ UNCHANGED scenario
  /\ CASE input_mode = "Add" ->
            /\ Len(tasks) < MaxDriverTasks
            /\ tasks' = main_add_task(tasks, input, now)
            /\ main_save_to_file(tasks', outcome)
            /\ input_mode' = "View"
            /\ last' = Op("add", input, None, None)
            /\ UNCHANGED <<panicked, filter>>
       [] input_mode = "Filter" ->
            /\ filter' = input
            /\ input_mode' = "View"
            /\ last' = Key
            /\ UNCHANGED <<tasks, panicked, ret, file>>
       [] input_mode = "Edit" ->
            LET tasks_filtered == main_filter_tasks(tasks, filter)
            IN  IF main_current_index < Len(tasks_filtered)
                  THEN LET task == tasks_filtered[main_current_index + 1]
                           original_index == Position(tasks, task.description)
                       IN  IF original_index = None
                             THEN /\ panicked' = TRUE
                                  /\ last' = Key
                                  /\ UNCHANGED <<tasks, ret, file, filter, input_mode>>
                             ELSE /\ tasks' = main_edit_task(tasks, original_index[1], input)
                                  /\ main_save_to_file(tasks', outcome)
                                  /\ input_mode' = "View"
                                  /\ last' = Op("edit", input, None, original_index)
                                  /\ UNCHANGED <<panicked, filter>>
                  ELSE /\ last' = Key
                       /\ UNCHANGED <<tasks, panicked, ret, file, filter, input_mode>>
       [] input_mode = "View" ->
            /\ last' = Key
            /\ UNCHANGED <<tasks, panicked, ret, file, filter, input_mode>>
  /\ input' = <<>>
  /\ UNCHANGED <<now, main_current_index>>

\* the letters that the user types
TypedChars == {"a"}

KeyChar(c) ==
  /\ ~panicked
  /\ UNCHANGED scenario
  /\ input_mode \in {"Add", "Filter", "Edit"}
  /\ Append(input, c) \in Inputs
  /\ input' = Append(input, c)
  /\ last' = Key
  /\ UNCHANGED <<tasks, now, panicked, ret, main_current_index, filter, input_mode, file>>

KeyBackspace ==
  /\ ~panicked
  /\ UNCHANGED scenario
  /\ input_mode \in {"Add", "Filter", "Edit"}
  /\ input' = IF input = <<>> THEN <<>> ELSE SubSeq(input, 1, Len(input) - 1)
  /\ last' = Key
  /\ UNCHANGED <<tasks, now, panicked, ret, main_current_index, filter, input_mode, file>>

KeyEsc ==
  /\ ~panicked
  /\ UNCHANGED scenario
  /\ input' = <<>>
  /\ input_mode' = "View"
  /\ last' = Key
  /\ UNCHANGED <<tasks, now, panicked, ret, main_current_index, filter, file>>

\* Ctrl-c: in another mode than View the arm of Char(c) comes first
KeyCtrlC ==
  /\ ~panicked
  /\ UNCHANGED scenario
  /\ IF input_mode \in {"Add", "Filter", "Edit"}
       THEN /\ Append(input, "c") \in Inputs
            /\ input' = Append(input, "c")
            /\ UNCHANGED input_mode
       ELSE /\ input_mode' = "View"
            /\ input' = <<>>
  /\ last' = Key
  /\ UNCHANGED <<tasks, now, panicked, ret, main_current_index, filter, file>>

\* main up to the loop: the file is there, the tasks are loaded from it, or
\* none when that fails, and reordered
InitMain(files) ==
  /\ file \in files
  /\ tasks = main_reorder_tasks(main_load_from_file(file))
  /\ now = 0
  /\ panicked = FALSE
  /\ last = Op("new", <<>>, None, None)
  /\ ret = None
  /\ tracked = None
  /\ before = <<>>
  /\ more_done = 0
  /\ main_current_index = 0
  /\ filter = <<>>
  /\ input = <<>>
  /\ input_mode = "View"

\* a task of main
MainTask(description, done) ==
  [description |-> description, done |-> done, created_at |-> Some(0)]

(***************************************************************************)
(* SpecSave: the driver with a todo file that may fail to be written.  The *)
(* user does not filter.                                                   *)
(***************************************************************************)
SaveFiles ==
  { EmptyFile,
    Snapshot(<<MainTask(<<"a">>, FALSE)>>),
    Snapshot(<<MainTask(<<"a">>, TRUE), MainTask(<<"a">>, FALSE)>>) }

InitSave == InitMain(SaveFiles)

SaveKeySpace == \E outcome \in SaveOutcomes : KeySpace(outcome)

SaveKeyEnter == \E outcome \in SaveOutcomes : KeyEnter(outcome)

SaveKeyChar == \E c \in TypedChars : KeyChar(c)

NextSave ==
  \/ KeyChar_b
  \/ KeyChar_j
  \/ KeyChar_k
  \/ SaveKeySpace
  \/ KeyChar_o
  \/ KeyChar_i
  \/ SaveKeyEnter
  \/ SaveKeyChar
  \/ KeyBackspace
  \/ KeyEsc
  \/ KeyCtrlC

SpecSave == InitSave /\ [][NextSave]_vars

\* the step is a command that changes the tasks and saves them
MutatingCommand == last'.op \in {"toggle", "add", "edit"}

\* v with the flag done of its i-th task turned over
Flipped(v, i) == [v EXCEPT ![i].done = ~v[i].done]

\* the tasks after the step are the tasks before it with the change of the
\* command: a flag turned over and the tasks reordered, a task put in, or a
\* description replaced
MutationKept ==
  /\ last'.op = "toggle" =>
       /\ last'.index[1] < Len(tasks)
       /\ IsPermutation(tasks', Flipped(tasks, last'.index[1] + 1))
       /\ tasks' # tasks
  /\ last'.op = "add" =>
       \E p \in 0..Len(tasks) :
         /\ InsertedAt(p, 1)
         /\ tasks'[p + 1].description = last'.description
         /\ ~tasks'[p + 1].done
  /\ last'.op = "edit" =>
       /\ last'.index[1] < Len(tasks)
       /\ tasks' = [tasks EXCEPT ![last'.index[1] + 1].description = last'.description]

\* a command that does not change the tasks does not save either
NoRetry == ~MutatingCommand => tasks' = tasks /\ file' = file /\ ret' = ret

\* after a save that succeeds the file holds the tasks
SavedWhenOk == (MutatingCommand /\ ret' = Some("Ok")) => file' = Snapshot(tasks')

(***************************************************************************)
(* C19 as stated: a failed save is not retried and does not roll back the  *)
(* change in memory; after a toggle, add or edit whose save fails the      *)
(* tasks keep the change and the file keeps its previous content, and the  *)
(* two differ until a later save succeeds; after one whose save succeeds   *)
(* the file holds the tasks.                                               *)
(***************************************************************************)
C19_DivergentUntilSaved ==
  /\ [][/\ MutatingCommand => ret' # None /\ MutationKept
        /\ NoRetry
        /\ SavedWhenOk
        /\ (MutatingCommand /\ ret' = Some("Err")) => file' = file]_vars
  /\ [](ret = Some("Err") => file # Snapshot(tasks))

(***************************************************************************)
(* C19 as the code has it: a failed save is not retried and does not roll  *)
(* back the change in memory; after a toggle, add or edit whose save fails *)
(* the tasks keep the change and the file either keeps its previous        *)
(* content or is left cut short, without a snapshot in it; no other        *)
(* command writes the file; after a toggle, add or edit whose save         *)
(* succeeds the file holds the tasks.  Tasks and file need not differ      *)
(* after a failed save: later changes can bring the tasks back to what the *)
(* file holds.                                                             *)
(***************************************************************************)
C19_FailedSaveKeepsMutation ==
  [][/\ MutatingCommand => ret' # None /\ MutationKept
     /\ NoRetry
     /\ SavedWhenOk
     /\ (MutatingCommand /\ ret' = Some("Err")) => file' \in {file, EmptyFile}]_vars

\* a toggle whose save failed: the task is done in memory and not in the file
C19_Witness ==
  /\ last.op = "toggle"
  /\ ret = Some("Err")
  /\ tasks = <<MainTask(<<"a">>, TRUE)>>
  /\ file = Snapshot(<<MainTask(<<"a">>, FALSE)>>)

\* a second toggle whose save failed: tasks and file are the same again, and no
\* save has succeeded
C19_WitnessSameAgain ==
  /\ last.op = "toggle"
  /\ ret = Some("Err")
  /\ tasks = <<MainTask(<<"a">>, FALSE)>>
  /\ file = Snapshot(tasks)

\* a failed save has cut the file short
C19_WitnessCutShort ==
  /\ last.op = "edit"
  /\ ret = Some("Err")
  /\ tasks # <<>>
  /\ file = EmptyFile

(***************************************************************************)
(* SpecSelect: the driver with filters, and a todo file that is written    *)
(* every time.  The file holds at first nothing, two tasks of different    *)
(* descriptions, or two tasks of the same description.                     *)
(***************************************************************************)
SelectFiles ==
  { EmptyFile,
    Snapshot(<<MainTask(<<"b">>, FALSE), MainTask(<<"a">>, FALSE)>>),
    Snapshot(<<MainTask(<<"a">>, FALSE), MainTask(<<"a">>, TRUE)>>) }

InitSelect == InitMain(SelectFiles)

SelectKeySpace == KeySpace("written")

SelectKeyEnter == KeyEnter("written")

SelectKeyChar == \E c \in TypedChars : KeyChar(c)

NextSelect ==
  \/ KeyChar_b
  \/ KeyChar_j
  \/ KeyChar_k
  \/ SelectKeySpace
  \/ KeyChar_o
  \/ KeySlash
  \/ KeyChar_i
  \/ SelectKeyEnter
  \/ SelectKeyChar
  \/ KeyBackspace
  \/ KeyEsc
  \/ KeyCtrlC

SpecSelect == InitSelect /\ [][NextSelect]_vars

\* the positions of the tasks that the filtered view shows
Rows == {j \in 1..Len(tasks) : HasSubstring(tasks[j].description, filter)}

\* the position in the store of the entry selected in the filtered view
Selected ==
  CHOOSE j \in Rows : Cardinality({k \in Rows : k < j}) = main_current_index

\* the lowest position of a task with the description of the selected entry
FirstMatch ==
  CHOOSE j \in 1..Len(tasks) :
    /\ tasks[j].description = tasks[Selected].description
    /\ \A k \in 1..(j - 1) : tasks[k].description # tasks[Selected].description

DistinctDescriptions ==
  \A j, k \in 1..Len(tasks) : tasks[j].description = tasks[k].description => j = k

(***************************************************************************)
(* C20: a toggle or an edit of the entry selected in the filtered view     *)
(* acts on the lowest-index task of the store that has the description of  *)
(* that entry: the selected task when all descriptions differ, the first   *)
(* match when two tasks share the description.                             *)
(***************************************************************************)
C20_FirstMatchMutated ==
  [][last'.op \in {"toggle", "edit"} =>
       /\ main_current_index < Cardinality(Rows)
       /\ last'.index = Some(FirstMatch - 1)
       /\ last'.op = "toggle" => IsPermutation(tasks', Flipped(tasks, FirstMatch))
       /\ last'.op = "edit" =>
            tasks' = [tasks EXCEPT ![FirstMatch].description = last'.description]
       /\ DistinctDescriptions => FirstMatch = Selected]_vars

\* a toggle with the second row selected, of two tasks with the same
\* description, has acted on the first task
C20_Witness ==
  /\ last.op = "toggle"
  /\ last.index = Some(0)
  /\ main_current_index = 1
  /\ filter = <<>>
  /\ Len(tasks) = 2
  /\ tasks[1].description = tasks[2].description

\* a toggle with the first row selected, under a filter that hides the first
\* task, has acted on the second task
C20_WitnessFiltered ==
  /\ last.op = "toggle"
  /\ last.index = Some(1)
  /\ main_current_index = 0
  /\ filter = <<"a">>
  /\ Len(tasks) = 2
  /\ tasks[1].description = <<"b">>

(***************************************************************************)
(* SpecSession: a session that starts with the empty store and in which    *)
(* add_task is given no reference at all, or the status and the index of   *)
(* a task that is in the store.  The store holds up to MaxSessionTasks     *)
(* tasks; the descriptions are "a" and the compound "a:; ", which yields   *)
(* two tasks.                                                              *)
(***************************************************************************)
MaxSessionTasks == 4

SessionDescriptions == { <<"a">>, <<"a", ":", " ", ";", " ">> }

SessionIndices == 0..MaxSessionTasks

\* no reference, or the one of a task of the store
ActualReferences ==
  {<<None, None>>} \cup {<<Some(tasks[i + 1].status), Some(i)>> : i \in 0..(Len(tasks) - 1)}

SessionAddTask ==
  /\ \E d \in SessionDescriptions, r \in ActualReferences :
       /\ Len(tasks) + Len(NewDescriptions(d)) <= MaxSessionTasks
       /\ add_task(d, r[1], r[2])
  /\ UNCHANGED aux

SessionDeleteTask ==
  /\ \E i \in SessionIndices : delete_task(i)
  /\ UNCHANGED aux

SessionEditTask ==
  /\ \E i \in SessionIndices : edit_task(i, <<"a">>)
  /\ UNCHANGED aux

SessionToggleTask ==
  /\ \E i \in SessionIndices : toggle_task(i)
  /\ UNCHANGED aux

SessionTogglePending ==
  /\ \E i \in SessionIndices : toggle_pending(i)
  /\ UNCHANGED aux

NextSession ==
  \/ SessionAddTask
  \/ SessionDeleteTask
  \/ RemoveDoneTasks
  \/ SessionEditTask
  \/ SessionToggleTask
  \/ SessionTogglePending
  \/ ReorderTasks

SpecSession == Init /\ [][NextSession]_vars

(***************************************************************************)
(* C21: in a session from the empty store in which every create has no     *)
(* reference or the status and index of a task of the store, every state   *)
(* has every Undone task before every Pending one and every Pending one    *)
(* before every Done one, although create does not sort; and no call       *)
(* panics.                                                                 *)
(***************************************************************************)
C21_SessionOrdered == OrderedByStatus(tasks) /\ ~panicked

\* create, with a Pending task that stands before a Done one as its reference,
\* has put a Pending task between the two
C21_Witness ==
  /\ last.op = "add_task"
  /\ last.status = Some("Pending")
  /\ last.index = Some(1)
  /\ Len(tasks) = 4
  /\ tasks[1].status = "Undone"
  /\ tasks[2].status = "Pending"
  /\ tasks[3].status = "Pending"
  /\ tasks[4].status = "Done"

\* create, with a Done task as its reference and a compound description, has
\* put two Undone tasks behind the last Undone one
C21_WitnessDoneReference ==
  /\ last.op = "add_task"
  /\ last.status = Some("Done")
  /\ Len(tasks) = 4
  /\ tasks[1].status = "Undone"
  /\ tasks[2].status = "Undone"
  /\ tasks[2].description = <<"a", ":", " ">>
  /\ tasks[3].status = "Undone"
  /\ tasks[4].status = "Done"

(***************************************************************************)
(* SpecMove: one toggle, and the same toggle once more on the same task,   *)
(* on every store of up to MaxMoveLen tasks that is ordered by status.     *)
(* The descriptions are all different.                                     *)
(***************************************************************************)
MaxMoveLen == 4

MoveStores == {v \in TwiceStores : Len(v) <= MaxMoveLen /\ OrderedByStatus(v)}

InitMove ==
  /\ tasks \in MoveStores
  /\ now = 0
  /\ panicked = FALSE
  /\ last = Op("new", <<>>, None, None)
  /\ InitAux

\* what is recorded of the task at the 0-based index when it is toggled first
Followed(index, op) ==
  Some([description |-> tasks[index + 1].description,
        status |-> tasks[index + 1].status,
        first_index |-> index,
        op |-> op,
        toggles |-> 1])

MoveToggleTask ==
  /\ tracked = None
  /\ \E index \in 0..(Len(tasks) - 1) :
       /\ toggle_task(index)
       /\ tracked' = Followed(index, "toggle_task")
  /\ UNCHANGED <<ret, before, more_done, driver>>

MoveTogglePending ==
  /\ tracked = None
  /\ \E index \in 0..(Len(tasks) - 1) :
       /\ toggle_pending(index)
       /\ tracked' = Followed(index, "toggle_pending")
  /\ UNCHANGED <<ret, before, more_done, driver>>

\* the same toggle once more, on the same task, at the index where it is now
MoveAgain ==
  /\ tracked # None
  /\ tracked[1].toggles = 1
  /\ \E index \in 0..(Len(tasks) - 1) :
       /\ tasks[index + 1].description = tracked[1].description
       /\ IF tracked[1].op = "toggle_task" THEN toggle_task(index) ELSE toggle_pending(index)
  /\ tracked' = Some([tracked[1] EXCEPT !.toggles = 2])
  /\ UNCHANGED <<ret, before, more_done, driver>>

NextMove == MoveToggleTask \/ MoveTogglePending \/ MoveAgain

SpecMove == InitMove /\ [][NextMove]_vars

\* the rank of a status in the order of the store
RankOf(status) ==
  CASE status = "Undone" -> 0
    [] status = "Pending" -> 1
    [] status = "Done" -> 2

\* the step is a toggle of the task at the position i of an ordered store; j
\* is the position of that task after it.  No other task has changed or has
\* changed its place among the others; a task whose rank has gone up is the
\* first of its new status, one whose rank has gone down is the last
MovedToBoundary(i, j) ==
  /\ tasks'[j].description = tasks[i].description
  /\ tasks'[j].created_at = tasks[i].created_at
  /\ VecRemove(tasks', j - 1) = VecRemove(tasks, i - 1)
  /\ RankOf(tasks'[j].status) # RankOf(tasks[i].status)
  /\ RankOf(tasks'[j].status) > RankOf(tasks[i].status) =>
       \A k \in 1..(j - 1) : tasks'[k].status # tasks'[j].status
  /\ RankOf(tasks'[j].status) < RankOf(tasks[i].status) =>
       \A k \in (j + 1)..Len(tasks') : tasks'[k].status # tasks'[j].status

ToggleMovesToBoundary ==
  (/\ last'.op \in {"toggle_task", "toggle_pending"}
   /\ last'.index[1] < Len(tasks)
   /\ OrderedByStatus(tasks))
    => /\ Len(tasks') = Len(tasks)
       /\ OrderedByStatus(tasks')
       /\ \E j \in 1..Len(tasks') : MovedToBoundary(last'.index[1] + 1, j)

\* the status that the task followed has now
TrackedStatus ==
  LET j == CHOOSE k \in 1..Len(tasks) : tasks[k].description = tracked[1].description
  IN  tasks[j].status

\* the same toggle twice brings the status back, but for toggle_done on a
\* Pending task, which ends Done, and toggle_pending on a Done task, which ends
\* Undone
TwiceBringsBack ==
  (tracked # None /\ tracked[1].toggles = 2) =>
    CASE tracked[1].op = "toggle_task" /\ tracked[1].status = "Pending" ->
           TrackedStatus = "Done"
      [] tracked[1].op = "toggle_pending" /\ tracked[1].status = "Done" ->
           TrackedStatus = "Undone"
      [] OTHER -> TrackedStatus = tracked[1].status

(***************************************************************************)
(* C22 as stated: in a store ordered by status a toggle moves the toggled  *)
(* task alone: up in rank it becomes the first task of its new status,     *)
(* down in rank the last one, and the other tasks keep their order; the    *)
(* same toggle twice brings the status of the task back.                   *)
(***************************************************************************)
C22_TwiceRestoresStatus ==
  /\ [][ToggleMovesToBoundary]_vars
  /\ []((tracked # None /\ tracked[1].toggles = 2) => TrackedStatus = tracked[1].status)

(***************************************************************************)
(* C22 as the code has it: in a store ordered by status a toggle moves the *)
(* toggled task alone: up in rank it becomes the first task of its new     *)
(* status, down in rank the last one, and the other tasks keep their       *)
(* order; the same toggle twice brings the status of the task back, but    *)
(* not for toggle_done on a Pending task, which ends Done, nor for         *)
(* toggle_pending on a Done task, which ends Undone.                       *)
(***************************************************************************)
C22_ToggleMovesToBoundary ==
  /\ [][ToggleMovesToBoundary]_vars
  /\ []TwiceBringsBack

\* toggle_done twice on the first of two Undone tasks: it is Undone again, and
\* the second of the two
C22_Witness ==
  /\ tracked # None
  /\ tracked[1].toggles = 2
  /\ tracked[1].op = "toggle_task"
  /\ tracked[1].status = "Undone"
  /\ tracked[1].first_index = 0
  /\ Len(tasks) >= 2
  /\ tasks[2].description = tracked[1].description
  /\ tasks[2].status = "Undone"
  /\ tasks[1].status = "Undone"

\* toggle_pending on a Done task that stood between two Done tasks: it is the
\* last of the Pending tasks, and the two Done tasks follow
C22_WitnessDown ==
  /\ tracked # None
  /\ tracked[1].toggles = 1
  /\ tracked[1].op = "toggle_pending"
  /\ tracked[1].status = "Done"
  /\ tracked[1].first_index = 2
  /\ Len(tasks) = 4
  /\ tasks[1].status = "Pending"
  /\ tasks[2].status = "Pending"
  /\ tasks[2].description = tracked[1].description
  /\ tasks[3].status = "Done"
  /\ tasks[4].status = "Done"

\* toggle_done twice on a Pending task: it is Done
C22_WitnessNotBack ==
  /\ tracked # None
  /\ tracked[1].toggles = 2
  /\ tracked[1].op = "toggle_task"
  /\ tracked[1].status = "Pending"
  /\ TrackedStatus = "Done"

====
